---- MODULE Spec2Model ----
(***************************************************************************)
(* Model of sample/show_nms.py: load_boxes (the box-table parser),         *)
(* parse_item (the item specifier parser), draw_boxes (the renderer) and   *)
(* the __main__ block that sequences them.                                 *)
(*                                                                         *)
(* Text is a sequence of one-character strings, so that the two regular    *)
(* expressions, str.split and float are computed character by character.   *)
(* A float is the exact decimal fraction <<num, den>> its token denotes;   *)
(* the coordinate tokens and image sizes used are ones on which the IEEE   *)
(* product w*x and the exact product truncate to the same integer.         *)
(* Python's None is the empty tuple; a present optional value x is <<x>>.  *)
(***************************************************************************)
EXTENDS Integers, Sequences, FiniteSets, TLC

VARIABLES args, pc, lineNo, current, classes, items, itemNo, im, stdout,
          shown, saved, err

vars == <<args, pc, lineNo, current, classes, items, itemNo, im, stdout,
          shown, saved, err>>

None == <<>>

Some(x) == <<x>>

------------------------------------------------------------------------------
(* Characters and the character classes of the two patterns.               *)

DigitChars == <<"0", "1", "2", "3", "4", "5", "6", "7", "8", "9">>

Digits == {DigitChars[i] : i \in 1..10}

Letters == {"A", "B", "C", "G", "x"}

\* \w
WordChars == Letters \cup Digits \cup {"_"}

\* [\w ]
NameChars == WordChars \cup {" "}

\* [0-9A-Fa-f]
HexChars == Digits \cup {"A", "B", "C"}

\* what str.split() with no argument splits on
Whitespace == {" ", "\t", "\n"}

Max(S) == CHOOSE m \in S : \A n \in S : n <= m

------------------------------------------------------------------------------
(* load_boxes                                                              *)

\* Mutant of HeaderRuns: the pattern without its colon, ([\w ]+).
HeaderRunsNoColon(line) ==
  {k \in 1..Len(line) : \A j \in 1..k : line[j] \in NameChars}

\* The lengths k for which ([\w ]+): matches at the start of the line with
\* the group taking k characters.
HeaderRuns(line) ==
  {k \in 1..(Len(line) - 1) :
     /\ \A j \in 1..k : line[j] \in NameChars
     /\ line[k + 1] = ":"}

\* m = re.match(r"([\w ]+):", line); m.group(1) when m, else None.
HeaderMatch(line) ==
  IF HeaderRuns(line) = {} THEN None
  ELSE Some(SubSeq(line, 1, Max(HeaderRuns(line))))

\* line.split(): the maximal runs of non-whitespace characters, in order.
RECURSIVE SplitFrom(_, _, _)
SplitFrom(line, i, tok) ==
  IF i > Len(line)
    THEN IF tok = <<>> THEN <<>> ELSE <<tok>>
  ELSE IF line[i] \in Whitespace
    THEN IF tok = <<>> THEN SplitFrom(line, i + 1, <<>>)
         ELSE <<tok>> \o SplitFrom(line, i + 1, <<>>)
  ELSE SplitFrom(line, i + 1, Append(tok, line[i]))

Split(line) == SplitFrom(line, 1, <<>>)

DigitVal(c) == (CHOOSE i \in 1..10 : DigitChars[i] = c) - 1

RECURSIVE Pow10(_)
Pow10(n) == IF n = 0 THEN 1 ELSE 10 * Pow10(n - 1)

RECURSIVE DigitsVal(_)
DigitsVal(ds) ==
  IF ds = <<>> THEN 0
  ELSE 10 * DigitsVal(SubSeq(ds, 1, Len(ds) - 1)) + DigitVal(ds[Len(ds)])

Unsigned(tok) == IF tok # <<>> /\ tok[1] = "-" THEN Tail(tok) ELSE tok

DotsOf(body) == {i \in 1..Len(body) : body[i] = "."}

\* Whether float(tok) returns: an optional sign, digits with at most one
\* point, at least one digit.  (No token of the model carries an exponent,
\* an underscore, "inf" or "nan".)
FloatOk(tok) ==
  LET body == Unsigned(tok)
  IN /\ \A i \in 1..Len(body) : body[i] \in Digits \cup {"."}
     /\ \E i \in 1..Len(body) : body[i] \in Digits
     /\ Cardinality(DotsOf(body)) <= 1

\* float(tok) as <<numerator, denominator>>.
Float(tok) ==
  LET body == Unsigned(tok)
      dot  == IF DotsOf(body) = {} THEN Len(body) + 1
              ELSE CHOOSE i \in DotsOf(body) : TRUE
      ds   == SubSeq(body, 1, dot - 1) \o SubSeq(body, dot + 1, Len(body))
      sign == IF tok # body THEN -1 ELSE 1
      frac == IF dot > Len(body) THEN 0 ELSE Len(body) - dot
  IN <<sign * DigitsVal(ds), Pow10(frac)>>

\* A dict is the sequence of its <<key, value>> pairs in insertion order.
DictKeys(d) == [i \in 1..Len(d) |-> d[i][1]]

DictHas(d, k) == \E i \in 1..Len(d) : d[i][1] = k

DictGet(d, k) == d[CHOOSE i \in 1..Len(d) : d[i][1] = k][2]

\* Mutant of DictSet: an existing key is taken out and put last.
DictSetMoveToEnd(d, k, v) ==
  Append(SelectSeq(d, LAMBDA e : e[1] # k), <<k, v>>)

\* d[k] = v: an existing key keeps its place, a new key goes last.
DictSet(d, k, v) ==
  IF DictHas(d, k)
    THEN [i \in 1..Len(d) |-> IF d[i][1] = k THEN <<k, v>> ELSE d[i]]
  ELSE Append(d, <<k, v>>)

\* Mutant of Lookup: classes.get(item, []), an unknown class has no boxes.
LookupOrEmpty(d, k) ==
  [found |-> TRUE, value |-> IF DictHas(d, k) THEN DictGet(d, k) ELSE <<>>]

\* classes[item] in __main__: the list, or KeyError when item is no key.
Lookup(d, k) ==
  IF DictHas(d, k) THEN [found |-> TRUE, value |-> DictGet(d, k)]
  ELSE [found |-> FALSE, value |-> <<>>]

\* list(classes): the names, in insertion order.
ClassList(d) == [i \in 1..Len(d) |-> d[i][1][1]]

\* box = tuple(map(float, line.split()))
BoxOf(line) == [i \in 1..Len(Split(line)) |-> Float(Split(line)[i])]

\* Mutant of DictAppend: the box is put first in the list.
DictAppendFront(d, k, box) ==
  [i \in 1..Len(d) |-> IF d[i][1] = k THEN <<k, <<box>> \o d[i][2]>> ELSE d[i]]

\* classes[current].append(box)
DictAppend(d, k, box) == DictSet(d, k, Append(DictGet(d, k), box))

------------------------------------------------------------------------------
(* draw_boxes                                                              *)

\* Mutant of Trunc: floor, as for n // d.
Floor(n, d) == n \div d

\* int(n / d): truncation toward zero.
Trunc(n, d) == IF n >= 0 THEN n \div d ELSE -((-n) \div d)

\* int(w*x) for an integer w and a float x.
PyInt(w, x) == Trunc(w * x[1], x[2])

\* The rectangle of one box (y1, x1, y2, x2) on an image of size (w, h):
\* (int(w*x1), int(h*y1), int(w*x2), int(h*y2)), outline=color.
Rect(size, box, color) ==
  [xy |-> <<PyInt(size[1], box[2]), PyInt(size[2], box[1]),
            PyInt(size[1], box[4]), PyInt(size[2], box[3])>>,
   outline |-> color]

\* The loop of draw_boxes from box i on: the rectangles drawn, and whether
\* the loop ended without the unpacking of a box raising ValueError.
RECURSIVE DrawFrom(_, _, _, _)
DrawFrom(size, boxes, color, i) ==
  IF i > Len(boxes) THEN [rects |-> <<>>, ok |-> TRUE]
  ELSE IF Len(boxes[i]) # 4 THEN [rects |-> <<>>, ok |-> FALSE]
  ELSE LET rest == DrawFrom(size, boxes, color, i + 1)
       IN [rects |-> <<Rect(size, boxes[i], color)>> \o rest.rects,
           ok |-> rest.ok]

\* Mutant of draw_boxes: a box that does not unpack ends the loop quietly.
draw_boxes_quiet(image, boxes, color) ==
  [im |-> [image EXCEPT !.rects = @ \o DrawFrom(image.size, boxes, color, 1).rects],
   ok |-> TRUE]

draw_boxes(image, boxes, color) ==
  LET d == DrawFrom(image.size, boxes, color, 1)
  IN [im |-> [image EXCEPT !.rects = @ \o d.rects], ok |-> d.ok]

------------------------------------------------------------------------------
(* parse_item                                                              *)

\* The lengths k the group ([\w ]+) can take at the start of str.
NameRuns(str) ==
  {k \in 1..Len(str) : \A j \in 1..k : str[j] \in NameChars}

\* Whether (#[0-9A-Fa-f]{6}) matches at position p of str.
ColorAt(str, p) ==
  /\ p + 6 <= Len(str)
  /\ str[p] = "#"
  /\ \A j \in (p + 1)..(p + 6) : str[j] \in HexChars

\* Mutant of parse_item: the inline color is not taken.
parse_item_default_color(str, color) ==
  IF NameRuns(str) = {} THEN None
  ELSE <<SubSeq(str, 1, Max(NameRuns(str))), color>>

\* m = re.match(r"([\w ]+)(#[0-9A-Fa-f]{6})?", str); m.groups(color) when m,
\* else None.  The first group is greedy, the second optional.
parse_item(str, color) ==
  IF NameRuns(str) = {} THEN None
  ELSE LET k == Max(NameRuns(str))
       IN <<SubSeq(str, 1, k),
            IF ColorAt(str, k + 1) THEN SubSeq(str, k + 1, k + 7) ELSE color>>

------------------------------------------------------------------------------
(* The inputs of a run: the table file, the command line.                  *)

MaxLines == 3

MaxItems == 2

SeqsUpTo(S, n) == UNION {[1..k -> S] : k \in 0..n}

\* tokens joined by single spaces, ended by the newline of a file line
RECURSIVE Joined(_)
Joined(toks) ==
  IF toks = <<>> THEN <<>>
  ELSE IF Len(toks) = 1 THEN toks[1]
  ELSE toks[1] \o <<" ">> \o Joined(Tail(toks))

Line(toks) == Joined(toks) \o <<"\n">>

Tok(d) == <<"0", ".", d>>

NegHalf == <<"-", "0", ".", "5">>

OneHalf == <<"1", ".", "5">>

HdrA == Line(<< <<"A", ":">> >>)

HdrB == Line(<< <<"B", ":">> >>)

HdrAB == Line(<< <<"A">>, <<"B", ":", "1">> >>)

Box1 == Line(<<Tok("1"), Tok("2"), Tok("3"), Tok("4")>>)

Box2 == <<"-", "0", ".", "5", "\t">> \o Line(<<OneHalf, Tok("3"), Tok("2")>>)

Short == Line(<<Tok("1"), Tok("2"), Tok("3")>>)

Long == Line(<<Tok("1"), Tok("2"), Tok("3"), Tok("4"), Tok("5")>>)

Blank == Line(<<>>)

Bad == Line(<<Tok("1"), <<"x">>, Tok("3"), Tok("4")>>)

LinePool == {HdrA, HdrB, HdrAB, Box1, Box2, Short, Long, Blank, Bad}

CoordTokens == {Tok("1"), Tok("2"), Tok("3"), Tok("4"), NegHalf, OneHalf}

White == <<"#", "F", "F", "F", "F", "F", "F">>

Green == <<"#", "0", "0", "F", "F", "0", "0">>

Rgb == <<"#", "1", "1", "2", "2", "3", "3">>

ItemPool ==
  { <<"A">>,
    <<"B">> \o Rgb,
    <<"C">>,
    Rgb,
    <<"A", "#", "1", "2">> }

ItemLists == SeqsUpTo(ItemPool, MaxItems)

SampleTables ==
  { <<HdrA, Box1, HdrB, Box2, Box1>>,
    <<HdrA, Box1, HdrB, Short>>,
    <<HdrA, Bad>>,
    <<Box1, HdrA>>,
    <<>> }

Args(tbl, its, quiet, list, color, output) ==
  [tbl |-> tbl, items |-> its, quiet |-> quiet, list |-> list,
   color |-> color, output |-> output]

\* the sample tables under every command line
RunInputs ==
  {Args(t, i, q, l, c, o) :
     t \in SampleTables, i \in ItemLists, q \in BOOLEAN, l \in BOOLEAN,
     c \in {White, Green}, o \in {"", "out.png"}}

\* every table of up to MaxLines lines, with all classes rendered or listed
TableInputs ==
  {Args(t, <<>>, FALSE, l, White, "out.png") :
     t \in SeqsUpTo(LinePool, MaxLines), l \in BOOLEAN}

\* one class with one box, over the coordinate tokens
BoxInputs ==
  {Args(<<HdrA, Line(<<y1, x1, y2, x2>>)>>, <<>>, FALSE, FALSE, White, "out.png") :
     y1 \in CoordTokens, x1 \in CoordTokens, y2 \in CoordTokens,
     x2 \in CoordTokens}

Inputs == RunInputs \cup TableInputs \cup BoxInputs

\* the sizes Image.open may find
ImageSizes == {<<100, 200>>, <<3, 7>>}

NoImage == [open |-> FALSE, size |-> <<0, 0>>, rects |-> <<>>]

NoErr == [exc |-> "", at |-> ""]

Raise(exc, at) == [exc |-> exc, at |-> at]

------------------------------------------------------------------------------
(* __main__                                                                *)

Init ==
  /\ args \in Inputs
  /\ pc = "load"
  /\ lineNo = 1
  /\ current = None
  /\ classes = <<>>
  /\ items = <<>>
  /\ itemNo = 1
  /\ im = NoImage
  /\ stdout = <<>>
  /\ shown = <<>>
  /\ saved = <<>>
  /\ err = NoErr

\* One iteration of "for line in f" in load_boxes.
LoadLine ==
  /\ pc = "load"
  /\ lineNo <= Len(args.tbl)
  /\ LET line == args.tbl[lineNo]
         m    == HeaderMatch(line)
     IN IF m # None
          THEN /\ current' = m
               /\ classes' = DictSet(classes, m, <<>>)
               /\ lineNo' = lineNo + 1
               /\ UNCHANGED <<pc, err>>
        ELSE IF \E i \in 1..Len(Split(line)) : ~FloatOk(Split(line)[i])
          THEN /\ pc' = "error"
               /\ err' = Raise("ValueError", "load_boxes")
               /\ UNCHANGED <<current, classes, lineNo>>
        ELSE IF ~DictHas(classes, current)
          THEN /\ pc' = "error"
               /\ err' = Raise("KeyError", "load_boxes")
               /\ UNCHANGED <<current, classes, lineNo>>
        ELSE /\ classes' = DictAppend(classes, current, BoxOf(line))
             /\ lineNo' = lineNo + 1
             /\ UNCHANGED <<current, pc, err>>
  /\ UNCHANGED <<args, items, itemNo, im, stdout, shown, saved>>

\* "return classes", and the assignment in __main__.
LoadReturn ==
  /\ pc = "load"
  /\ lineNo > Len(args.tbl)
  /\ pc' = "main"
  /\ UNCHANGED <<args, lineNo, current, classes, items, itemNo, im, stdout,
                 shown, saved, err>>

\* Mutant of ListRequested: the flag is not looked at.
ListIgnored == FALSE

\* if args.list:
ListRequested == args.list

\* print(list(classes)); exit()
ListMode ==
  /\ pc = "main"
  /\ ListRequested
  /\ stdout' = Append(stdout, ClassList(classes))
  /\ pc' = "exit"
  /\ UNCHANGED <<args, lineNo, current, classes, items, itemNo, im, shown,
                 saved, err>>

\* Mutant of SelectedItems: the specifiers that do not parse are left out.
SelectedItemsParsedOnly ==
  IF Len(args.items) > 0
    THEN SelectSeq([i \in 1..Len(args.items) |-> parse_item(args.items[i], args.color)],
                   LAMBDA it : it # None)
  ELSE [i \in 1..Len(classes) |-> <<ClassList(classes)[i], args.color>>]

\* the items of args.items parsed, or every class with args.color
SelectedItems ==
  IF Len(args.items) > 0
    THEN [i \in 1..Len(args.items) |-> parse_item(args.items[i], args.color)]
  ELSE [i \in 1..Len(classes) |-> <<ClassList(classes)[i], args.color>>]

SelectItems ==
  /\ pc = "main"
  /\ ~ListRequested
  /\ items' = SelectedItems
  /\ pc' = "open"
  /\ UNCHANGED <<args, lineNo, current, classes, itemNo, im, stdout, shown,
                 saved, err>>

\* im = Image.open(args.img): the file may be unreadable.
OpenImage ==
  /\ pc = "open"
  /\ \E ok \in BOOLEAN, size \in ImageSizes :
       IF ok
         THEN /\ im' = [open |-> TRUE, size |-> size, rects |-> <<>>]
              /\ pc' = "render"
              /\ UNCHANGED err
       ELSE /\ pc' = "error"
            /\ err' = Raise("OSError", "open")
            /\ UNCHANGED im
  /\ UNCHANGED <<args, lineNo, current, classes, items, itemNo, stdout,
                 shown, saved>>

\* One iteration of "for item,color in items: draw_boxes(im, classes[item], color)".
RenderItem ==
  /\ pc = "render"
  /\ itemNo <= Len(items)
  /\ LET it == items[itemNo]
     IN IF it = None
          THEN /\ pc' = "error"
               /\ err' = Raise("TypeError", "render")
               /\ UNCHANGED <<im, itemNo>>
        ELSE IF ~Lookup(classes, Some(it[1])).found
          THEN /\ pc' = "error"
               /\ err' = Raise("KeyError", "render")
               /\ UNCHANGED <<im, itemNo>>
        ELSE LET d == draw_boxes(im, Lookup(classes, Some(it[1])).value, it[2])
             IN /\ im' = d.im
                /\ IF d.ok
                     THEN /\ itemNo' = itemNo + 1
                          /\ UNCHANGED <<pc, err>>
                   ELSE /\ pc' = "error"
                        /\ err' = Raise("ValueError", "render")
                        /\ UNCHANGED itemNo
  /\ UNCHANGED <<args, lineNo, current, classes, items, stdout, shown, saved>>

\* if not args.quiet: im.show()
Show ==
  /\ pc = "render"
  /\ itemNo > Len(items)
  /\ shown' = IF args.quiet THEN shown ELSE Append(shown, im)
  /\ pc' = "save"
  /\ UNCHANGED <<args, lineNo, current, classes, items, itemNo, im, stdout,
                 saved, err>>

\* if args.output: im.save(args.output); the write may fail.
Save ==
  /\ pc = "save"
  /\ \E ok \in BOOLEAN :
       IF args.output = ""
         THEN /\ pc' = "done"
              /\ UNCHANGED <<saved, err>>
       ELSE IF ok
         THEN /\ saved' = Append(saved, [path |-> args.output, image |-> im])
              /\ pc' = "done"
              /\ UNCHANGED err
       ELSE /\ pc' = "error"
            /\ err' = Raise("OSError", "save")
            /\ UNCHANGED saved
  /\ UNCHANGED <<args, lineNo, current, classes, items, itemNo, im, stdout,
                 shown>>

Next ==
  \/ LoadLine
  \/ LoadReturn
  \/ ListMode
  \/ SelectItems
  \/ OpenImage
  \/ RenderItem
  \/ Show
  \/ Save

Spec == Init /\ [][Next]_vars

------------------------------------------------------------------------------
(* The table text read on its own terms: what its lines are and which      *)
(* boxes stand under which header.                                         *)

\* A header line: one or more word characters or spaces, then a colon.
IsHeaderText(line) ==
  \E k \in 1..(Len(line) - 1) :
    /\ \A j \in 1..k : line[j] \in NameChars
    /\ line[k + 1] = ":"

\* The text before the first colon of a header line.
HeaderName(line) ==
  LET c == CHOOSE k \in 1..Len(line) :
             line[k] = ":" /\ \A j \in 1..(k - 1) : line[j] # ":"
  IN SubSeq(line, 1, c - 1)

HeaderIdx(t) == {i \in 1..Len(t) : IsHeaderText(t[i])}

BoxIdx(t) == (1..Len(t)) \ HeaderIdx(t)

\* the j-th smallest element of a set of line numbers
NthOf(S, j) == CHOOSE h \in S : Cardinality({g \in S : g <= h}) = j

\* the headers that are the first, and the last, occurrence of their name
FirstIdx(t) ==
  LET H == HeaderIdx(t)
  IN {h \in H : \A g \in H : g < h => HeaderName(t[g]) # HeaderName(t[h])}

LastIdx(t) ==
  LET H == HeaderIdx(t)
  IN {h \in H : \A g \in H : g > h => HeaderName(t[g]) # HeaderName(t[h])}

\* the class names of the text, in order of first appearance
TableNames(t) ==
  LET F == FirstIdx(t)
  IN [j \in 1..Cardinality(F) |-> HeaderName(t[NthOf(F, j)])]

\* the last line of the run of box lines that follows header h
SectionEnd(t, h) ==
  LET After == {g \in HeaderIdx(t) : g > h}
  IN IF After = {} THEN Len(t)
     ELSE (CHOOSE g \in After : \A g2 \in After : g <= g2) - 1

NumericTokens(line) == \A i \in 1..Len(Split(line)) : FloatOk(Split(line)[i])

FourNumbers(line) == Len(Split(line)) = 4 /\ NumericTokens(line)

\* (y1, x1, y2, x2) of a box line of four numbers
FourTuple(line) ==
  <<Float(Split(line)[1]), Float(Split(line)[2]),
    Float(Split(line)[3]), Float(Split(line)[4])>>

WellFormed(t) ==
  LET H == HeaderIdx(t)
  IN /\ \A i \in (1..Len(t)) \ H : FourNumbers(t[i]) /\ \E h \in H : h < i
     /\ FirstIdx(t) = H

\* load_boxes has returned its table to __main__.
Returned == pc # "load" /\ err.at # "load_boxes"

LoadFailed == pc = "error" /\ err.at = "load_boxes"

\* C1: for a well-formed table text load_boxes returns, and the table it
\* returns has exactly the header names as keys, in order of first
\* appearance, each with exactly the 4-tuples (y1, x1, y2, x2) of the box
\* lines between its header and the next one, in file order.
C1_WellFormedTableParsed ==
  (pc # "load" /\ WellFormed(args.tbl)) =>
    /\ Returned
    /\ LET H == HeaderIdx(args.tbl)
       IN classes =
            [j \in 1..Cardinality(H) |->
               LET h == NthOf(H, j)
               IN <<Some(HeaderName(args.tbl[h])),
                    [k \in 1..(SectionEnd(args.tbl, h) - h) |->
                       FourTuple(args.tbl[h + k])]>>]

\* C1 witness: a well-formed text of two classes, the second with two
\* different boxes, has been loaded.
C1_Witness ==
  /\ pc = "main"
  /\ WellFormed(args.tbl)
  /\ Len(classes) = 2
  /\ Len(classes[1][2]) = 1
  /\ Len(classes[2][2]) = 2
  /\ classes[2][2][1] # classes[2][2][2]

Malformed(line) == ~IsHeaderText(line) /\ ~FourNumbers(line)

\* C2: a text with a non-header line that is blank, has other than four
\* tokens or has a non-numeric token makes load_boxes fail: it is never
\* returned from, and no table holds a box that is not a 4-tuple.
C2_MalformedLineFailsLoad ==
  (\E i \in 1..Len(args.tbl) : Malformed(args.tbl[i])) =>
    /\ ~Returned
    /\ \A c \in 1..Len(classes) :
         \A b \in 1..Len(classes[c][2]) : Len(classes[c][2][b]) = 4

BoxBeforeHeader(t) == Len(t) > 0 /\ 1 \in BoxIdx(t)

\* C9: a box line before any class header makes load_boxes fail at that
\* line: nothing is stored (no key, and never a None key), the table is not
\* returned, and the run ends in the error before a class name is printed
\* or an image opened, in list mode too.
C9_BoxBeforeHeaderFails ==
  /\ ~DictHas(classes, None)
  /\ BoxBeforeHeader(args.tbl) =>
       /\ pc \in {"load", "error"}
       /\ lineNo = 1
       /\ pc = "error" => err.at = "load_boxes"
       /\ classes = <<>>
       /\ stdout = <<>>
       /\ ~im.open
       /\ shown = <<>>
       /\ saved = <<>>

\* C9 witness: in list mode, a numeric box line that comes first has raised
\* the lookup error.
C9_Witness ==
  /\ BoxBeforeHeader(args.tbl)
  /\ FourNumbers(args.tbl[1])
  /\ args.list
  /\ pc = "error"
  /\ err = Raise("KeyError", "load_boxes")

HasRepeatedHeader(t) == FirstIdx(t) # HeaderIdx(t)

\* C10: when a header is repeated, every occurrence starts the class's list
\* anew: the returned table holds each class once, at the place of its first
\* appearance, with only the box lines that follow its last occurrence.
C10_RepeatedHeaderReplaces ==
  ((pc = "load" \/ Returned) /\ HasRepeatedHeader(args.tbl)) =>
    /\ \A i, j \in 1..Len(classes) : classes[i][1] = classes[j][1] => i = j
    /\ (pc = "load" /\ (lineNo - 1) \in HeaderIdx(args.tbl)) =>
         /\ current = Some(HeaderName(args.tbl[lineNo - 1]))
         /\ Lookup(classes, current) = [found |-> TRUE, value |-> <<>>]
    /\ Returned =>
         LET names == TableNames(args.tbl)
             L     == LastIdx(args.tbl)
         IN classes =
              [j \in 1..Len(names) |->
                 LET last == CHOOSE h \in L : HeaderName(args.tbl[h]) = names[j]
                 IN <<Some(names[j]),
                      [k \in 1..(SectionEnd(args.tbl, last) - last) |->
                         BoxOf(args.tbl[last + k])]>>]

\* C10 witness: a class whose header came twice, with a box under the first
\* occurrence, has been returned without that box.
C10_Witness ==
  /\ pc = "main"
  /\ \E g, h \in HeaderIdx(args.tbl) :
       /\ g + 1 < h
       /\ HeaderName(args.tbl[g]) = HeaderName(args.tbl[h])
       /\ (g + 1) \in BoxIdx(args.tbl)
       /\ h \in LastIdx(args.tbl)
       /\ SectionEnd(args.tbl, h) = h
       /\ Lookup(classes, Some(HeaderName(args.tbl[h]))).value = <<>>

------------------------------------------------------------------------------
(* The run.                                                                *)

\* __main__ has built its item list.
Selected == pc \in {"open", "render", "save", "done"} \/ (pc = "error" /\ err.at # "load_boxes")

\* the boxes the table holds for a class name (none for an unknown name)
BoxesOf(name) ==
  IF \E c \in 1..Len(classes) : classes[c][1] = Some(name)
    THEN classes[CHOOSE c \in 1..Len(classes) : classes[c][1] = Some(name)][2]
  ELSE <<>>

RECURSIVE BoxCount(_)
\* the number of boxes of the first n items
BoxCount(n) ==
  IF n = 0 THEN 0 ELSE BoxCount(n - 1) + Len(BoxesOf(items[n][1]))

\* C3: in list mode, once the table has parsed, the run prints the class
\* names in first-appearance order and exits without error; it never builds
\* an item list, opens the image, draws, displays or saves, whatever the
\* other options are.
C3_ListModeOnlyPrints ==
  args.list =>
    /\ pc \in {"load", "main", "exit", "error"}
    /\ pc = "error" => err.at = "load_boxes"
    /\ pc = "main" => ENABLED ListMode
    /\ pc = "exit" => stdout = <<TableNames(args.tbl)>> /\ err = NoErr
    /\ pc # "exit" => stdout = <<>>
    /\ items = <<>>
    /\ im = NoImage
    /\ shown = <<>>
    /\ saved = <<>>

\* C3 witness: list mode has printed two class names and exited although
\* items, display and an output path were all asked for.
C3_Witness ==
  /\ pc = "exit"
  /\ args.list
  /\ args.items # <<>>
  /\ ~args.quiet
  /\ args.output # ""
  /\ stdout = << << <<"A">>, <<"B">> >> >>

\* C4: the image is displayed or written only after the render loop has
\* gone through every item without error, with every box of every item
\* drawn; a failure in parsing, opening or rendering ends the run with
\* nothing displayed and nothing written.
C4_SaveOnlyAfterFullRender ==
  /\ (shown # <<>> \/ saved # <<>> \/ pc \in {"save", "done"}) =>
       /\ itemNo = Len(items) + 1
       /\ \A i \in 1..Len(items) :
            items[i] # None /\ DictHas(classes, Some(items[i][1]))
       /\ Len(im.rects) = BoxCount(Len(items))
       /\ \A i \in 1..Len(shown) : shown[i] = im
       /\ \A i \in 1..Len(saved) : saved[i].image = im
       /\ Len(saved) <= 1
  /\ (pc = "error" /\ err.at \in {"load_boxes", "open", "render"}) =>
       /\ shown = <<>>
       /\ saved = <<>>
       /\ ~ENABLED Next

\* C4 witness: the render loop has failed after drawing a box, with an
\* output path given and display not suppressed.
C4_Witness ==
  /\ pc = "error"
  /\ err.at = "render"
  /\ Len(im.rects) > 0
  /\ args.output # ""
  /\ ~args.quiet

\* the items that name a class the table does not hold
UnknownItems ==
  {i \in 1..Len(items) :
     items[i] # None /\ \A c \in 1..Len(classes) : classes[c][1] # Some(items[i][1])}

\* C5: an item whose class is no key of the table stops the run: the loop
\* never goes past it, the step that reaches it raises KeyError, and the
\* image is neither displayed nor saved.
C5_UnknownClassFails ==
  (Selected /\ UnknownItems # {}) =>
    /\ pc \in {"open", "render", "error"}
    /\ \A u \in UnknownItems : itemNo <= u
    /\ (pc = "error" /\ err.at = "render" /\ itemNo \in UnknownItems) =>
         err.exc = "KeyError"
    /\ shown = <<>>
    /\ saved = <<>>

\* C5 witness: the loop has drawn a known class and then failed with
\* KeyError on an unknown one, with display and output asked for.
C5_Witness ==
  /\ pc = "error"
  /\ err = Raise("KeyError", "render")
  /\ itemNo = 2
  /\ Len(im.rects) > 0
  /\ items[2][1] = <<"C">>
  /\ ~args.quiet
  /\ args.output # ""

\* a specifier the pattern matches: it starts with a word character or space
Matching(str) == str # <<>> /\ str[1] \in NameChars

\* the name of a matching specifier: its longest leading run of word
\* characters and spaces
SpecName(str) ==
  SubSeq(str, 1, CHOOSE k \in 1..Len(str) :
                   /\ \A j \in 1..k : str[j] \in NameChars
                   /\ k < Len(str) => str[k + 1] \notin NameChars)

\* the text right after the name, when it is '#' and six hex digits
HasInlineColor(str) ==
  LET n == Len(SpecName(str))
  IN /\ Len(str) >= n + 7
     /\ str[n + 1] = "#"
     /\ \A j \in 2..7 : str[n + j] \in HexChars

InlineColor(str) ==
  [j \in 1..7 |-> str[Len(SpecName(str)) + j]]

\* C6: without --items the item list is every class of the table, in
\* first-appearance order, with the default color; with --items it has one
\* entry per specifier, in order, a matching specifier giving its name with
\* its inline color or else the default color.  Only the listed items are
\* drawn: the rectangles on the image are those of the items gone through.
C6_ItemList ==
  Selected =>
    /\ args.items = <<>> =>
         items = [i \in 1..Len(TableNames(args.tbl)) |->
                    <<TableNames(args.tbl)[i], args.color>>]
    /\ args.items # <<>> =>
         /\ Len(items) = Len(args.items)
         /\ \A i \in 1..Len(items) :
              Matching(args.items[i]) =>
                items[i] = <<SpecName(args.items[i]),
                             IF HasInlineColor(args.items[i])
                               THEN InlineColor(args.items[i])
                             ELSE args.color>>
    /\ pc \in {"render", "save", "done"} =>
         Len(im.rects) = BoxCount(itemNo - 1)

\* C6 witness: "B#112233" and "A" have become (B, #112233) and (A, default)
\* with a default color other than white, B drawn first and A not yet.
C6_Witness ==
  /\ pc = "render"
  /\ itemNo = 2
  /\ args.color = Green
  /\ args.items = << <<"B">> \o Rgb, <<"A">> >>
  /\ items = << << <<"B">>, Rgb >>, << <<"A">>, Green >> >>
  /\ Len(classes) = 2
  /\ Len(im.rects) = 2

\* the integer q with |q| <= |n/d| < |q| + 1 and the sign of n/d
TowardZero(n, d) ==
  CHOOSE q \in ((n \div d) - 1)..((n \div d) + 1) :
    IF n >= 0 THEN q * d <= n /\ n < (q + 1) * d
    ELSE (q - 1) * d < n /\ n <= q * d

\* x*w for a fraction x = <<num, den>>, as numerator and denominator
Times(x, w) == <<x[1] * w, x[2]>>

\* the rectangle the claim gives for box (y1, x1, y2, x2) on a w by h image
ClaimedRect(w, h, box, color) ==
  LET y1 == box[1]
      x1 == box[2]
      y2 == box[3]
      x2 == box[4]
  IN [xy |-> <<TowardZero(Times(x1, w)[1], Times(x1, w)[2]),
               TowardZero(Times(y1, h)[1], Times(y1, h)[2]),
               TowardZero(Times(x2, w)[1], Times(x2, w)[2]),
               TowardZero(Times(y2, h)[1], Times(y2, h)[2])>>,
      outline |-> color]

RECURSIVE ClaimedRects(_)
\* the rectangles of the first n items, box by box
ClaimedRects(n) ==
  IF n = 0 THEN <<>>
  ELSE ClaimedRects(n - 1) \o
       [b \in 1..Len(BoxesOf(items[n][1])) |->
          ClaimedRect(im.size[1], im.size[2], BoxesOf(items[n][1])[b], items[n][2])]

\* C7: draw_boxes draws exactly one rectangle per box, in order, with
\* corners (trunc(x1*w), trunc(y1*h)) and (trunc(x2*w), trunc(y2*h)),
\* truncated toward zero, with no clamping or reordering of coordinates;
\* box (0.1, 0.2, 0.3, 0.4) on a 100 by 200 image gives (20, 20), (40, 60).
C7_RectangleCorners ==
  /\ pc \in {"render", "save", "done"} => im.rects = ClaimedRects(itemNo - 1)
  /\ (pc = "save" /\ args.tbl = <<HdrA, Box1>> /\ im.size = <<100, 200>>
      /\ args.items = <<>>) =>
       im.rects = <<[xy |-> <<20, 20, 40, 60>>, outline |-> args.color]>>

\* C7 witness: box (-0.5, 1.5, 0.3, 0.2), negative, out of range and
\* inverted, has been drawn on a 3 by 7 image as (4, -3), (0, 2).
C7_Witness ==
  /\ pc = "save"
  /\ im.size = <<3, 7>>
  /\ classes = << <<Some(<<"A">>), << << <<-5, 10>>, <<15, 10>>, <<3, 10>>, <<2, 10>> >> >> >> >>
  /\ im.rects = <<[xy |-> <<4, -3, 0, 2>>, outline |-> White]>>

\* the specifiers the pattern does not match
Unmatched == {i \in 1..Len(args.items) : ~Matching(args.items[i])}

\* C8: a specifier the pattern does not match becomes a None entry of the
\* item list and stops the run: the loop never goes past it, the step that
\* reaches it raises TypeError, and the image is neither displayed nor
\* saved, whatever the other specifiers are.
C8_UnmatchedSpecifierFails ==
  (Selected /\ Unmatched # {}) =>
    /\ Len(items) = Len(args.items)
    /\ \A u \in Unmatched : items[u] = None /\ itemNo <= u
    /\ pc \in {"open", "render", "error"}
    /\ (pc = "error" /\ err.at = "render" /\ itemNo \in Unmatched) =>
         err.exc = "TypeError"
    /\ shown = <<>>
    /\ saved = <<>>

\* C8 witness: after a valid specifier was drawn, the unmatched second one
\* has raised TypeError, with display and output asked for.
C8_Witness ==
  /\ pc = "error"
  /\ err = Raise("TypeError", "render")
  /\ itemNo = 2
  /\ Len(im.rects) > 0
  /\ args.items[1] = <<"A">>
  /\ args.items[2] = Rgb
  /\ ~args.quiet
  /\ args.output # ""

====
